---- MODULE Spec2Model ----
(***************************************************************************)
(* Spendy expense tracker (src/App.js): the ledger, the category registry, *)
(* the entry form, the category-deletion dialog and the month navigation,  *)
(* as a state machine with one action per UI event handler.                *)
(*                                                                         *)
(* Strings are sequences of tokens: "" is << >>, a word is one token and   *)
(* " " is the whitespace token, so that trim() and parseFloat() are        *)
(* computed on the text and not assumed.                                   *)
(* A JS Date is a record of its local calendar fields [y, m, d, h] with    *)
(* m in 0..11 as getMonth() returns it; toISOString() renders the same     *)
(* instant in UTC with a 1-based month.                                    *)
(***************************************************************************)
EXTENDS Integers, Sequences, FiniteSets, TLC

VARIABLES
    transactions,       \* useState([])                       App.js:61
    categories,         \* useState({Income, Expense})        App.js:63
    modalVisible,       \* Add Transaction modal              App.js:68
    newTransaction,     \* the entry form                     App.js:69
    newCategoryName,    \* text of the new-category input     App.js:77
    isAddingCategory,   \*                                    App.js:78
    currentDate,        \* the reference month                App.js:81
    pickerVisible,      \*                                    App.js:84
    pickerYear,         \*                                    App.js:85
    deleteModalVisible, \* conflict dialog                    App.js:91
    categoryToDelete,   \* << >> (null) or <<[name, type]>>   App.js:92
    reassignCategory,   \*                                    App.js:93
    alert,              \* the native Alert on screen: << >> or <<record>>
    now,                \* the next reading of Date.now()
    today,              \* the local calendar fields of new Date()
    tz,                 \* hours east of UTC of the device
    last,               \* the last event handled, with its arguments
    theme,              \* useState('light')                  App.js:57
    isLoaded,           \* useState(false)                    App.js:59
    reads,              \* the three getItem promises of loadData, by slot
    storage,            \* AsyncStorage: by slot, << >> (no item) or <<blob>>
    writes              \* the setItem calls in flight: by slot, the set of their blobs

vars == <<transactions, categories, modalVisible, newTransaction, newCategoryName,
          isAddingCategory, currentDate, pickerVisible, pickerYear,
          deleteModalVisible, categoryToDelete, reassignCategory, alert,
          now, today, tz, last, theme, isLoaded, reads, storage, writes>>

\* ------------------------------------------------------------------ bounds

\* Longest ledger an add may still extend.
MaxTx == 2
\* Largest reading of the millisecond clock at which an add is still taken.
MaxClock == 2
\* Most names the two registry lists may hold together for an add-category
\* to be taken (the seed holds 7).
MaxCats == 8
\* Months the arrows may lead away from the month of the real-world date.
MaxNav == 1
\* Years the month picker may lead away from the year of the real-world date.
MaxYears == 1
\* Longest ledger a month view is computed on.
MaxLedger == 3
\* Most saves that may be in flight for a handler that issues saves to be taken
\* (the end of the startup load issues three at once).
MaxInFlight == 3
\* Months the real-world clock may move on past the month of the start.
MaxMonthsOn == 1

\* ----------------------------------------------------------------- strings

Types == {"Income", "Expense"}

EmptyStr == << >>
Word(w) == <<w>>
Space == " "

\* String.prototype.trim(): drops the leading and the trailing whitespace.
RECURSIVE TrimLeft(_)
TrimLeft(s) ==
    IF s # << >> /\ Head(s) = Space THEN TrimLeft(Tail(s)) ELSE s

RECURSIVE TrimRight(_)
TrimRight(s) ==
    IF s # << >> /\ s[Len(s)] = Space THEN TrimRight(SubSeq(s, 1, Len(s) - 1)) ELSE s

Trim(s) == TrimRight(TrimLeft(s))

\* JS truthiness of a string: only "" is falsy.
\* (Truthy_Always: the variant for which the empty string is truthy too.)
Truthy_Always(s) == TRUE

Truthy(s) == s # EmptyStr

\* Array.prototype.includes on a list of names.
Includes(list, name) == \E i \in 1..Len(list) : list[i] = name

\* ----------------------------------------------------------------- numbers

NaN == [nan |-> TRUE, v |-> 0]
Num(n) == [nan |-> FALSE, v |-> n]
\* The amount of a record read back from JSON whose amount was written as null.
JsonNull == [nan |-> FALSE, v |-> 0, null |-> TRUE]

\* a + b and a - b on amounts: Number(null) is 0, anything with NaN is NaN.
Plus(a, b) == IF a.nan \/ b.nan THEN NaN ELSE Num(a.v + b.v)
Minus(a, b) == IF a.nan \/ b.nan THEN NaN ELSE Num(a.v - b.v)

Digits == {"0", "1", "2", "3", "4", "5", "6", "7", "8", "9"}
DigitVal(c) ==
    CASE c = "0" -> 0 [] c = "1" -> 1 [] c = "2" -> 2 [] c = "3" -> 3 [] c = "4" -> 4
      [] c = "5" -> 5 [] c = "6" -> 6 [] c = "7" -> 7 [] c = "8" -> 8 [] c = "9" -> 9

\* The value of the longest prefix of digits of s, read after acc; n counts them.
RECURSIVE DigitPrefix(_, _, _)
DigitPrefix(s, acc, n) ==
    IF s # << >> /\ Head(s) \in Digits
    THEN DigitPrefix(Tail(s), 10 * acc + DigitVal(Head(s)), n + 1)
    ELSE [v |-> acc, n |-> n]

\* parseFloat(text): skips leading whitespace, reads the longest numeric prefix
\* (digits here), NaN when there is none.
ParseFloat(s) ==
    LET p == DigitPrefix(TrimLeft(s), 0, 0)
    IN  IF p.n = 0 THEN NaN ELSE Num(p.v)

\* ------------------------------------------------------------------- dates

IsLeap(y) == (y % 4 = 0 /\ y % 100 # 0) \/ y % 400 = 0

DaysInMonth(y, m) ==
    CASE m = 1 -> IF IsLeap(y) THEN 29 ELSE 28
      [] m \in {3, 5, 8, 10} -> 30
      [] OTHER -> 31

\* new Date(y, m, d, h) for any integers m and d: the Date constructor and the
\* setters carry an out-of-range month into the year and an out-of-range day
\* into the neighbouring months.
RECURSIVE MakeDate(_, _, _, _)
MakeDate(y, m, d, h) ==
    IF m < 0 THEN MakeDate(y - 1, m + 12, d, h)
    ELSE IF m > 11 THEN MakeDate(y + 1, m - 12, d, h)
    ELSE IF d < 1 THEN
        LET py == IF m = 0 THEN y - 1 ELSE y
            pm == IF m = 0 THEN 11 ELSE m - 1
        IN  MakeDate(py, pm, d + DaysInMonth(py, pm), h)
    ELSE IF d > DaysInMonth(y, m) THEN
        MakeDate(IF m = 11 THEN y + 1 ELSE y, IF m = 11 THEN 0 ELSE m + 1,
                 d - DaysInMonth(y, m), h)
    ELSE [y |-> y, m |-> m, d |-> d, h |-> h]

\* Date.prototype.setDate(day) and setMonth(month) in local time.
SetDate(date, day) == MakeDate(date.y, date.m, day, date.h)
SetMonth(date, month) == MakeDate(date.y, month, date.d, date.h)

\* The local date k hours later (k may be negative), |k| < 24.
AddHours(date, k) ==
    LET hh == date.h + k
    IN  IF hh < 0 THEN MakeDate(date.y, date.m, date.d - 1, hh + 24)
        ELSE IF hh > 23 THEN MakeDate(date.y, date.m, date.d + 1, hh - 24)
        ELSE MakeDate(date.y, date.m, date.d, hh)

\* Date.prototype.toISOString(): the instant in UTC, "YYYY-MM-DDTHH", the
\* month 1-based, for a device zone hours east of UTC.
ToISOString(date, zone) ==
    LET u == AddHours(date, 0 - zone)
    IN  <<u.y, u.m + 1, u.d, u.h>>

\* new Date(isoString): the same instant, read back in local time.
ParseISO(iso, zone) ==
    AddHours([y |-> iso[1], m |-> iso[2] - 1, d |-> iso[3], h |-> iso[4]], zone)

\* Date.prototype.toLocaleDateString(): month/day/year of the local date.
ToLocaleDateString(date) == <<date.m + 1, date.d, date.y>>

\* Months since year 0 of a date, to compare months.
MonthIndex(date) == 12 * date.y + date.m

\* isSameMonth(d1, d2) as the filter calls it: d1 an ISO string, d2 a Date; both
\* go through new Date(...) and are compared by local month and year.
\* (isSameMonth_MonthOnly: the variant that forgets the year.)
isSameMonth_MonthOnly(d1, d2, zone) == ParseISO(d1, zone).m = d2.m

isSameMonth(d1, d2, zone) ==
    LET date1 == ParseISO(d1, zone)
        date2 == d2
    IN  date1.m = date2.m /\ date1.y = date2.y

\* isFutureMonth(date), nowDate the reading of new Date().
\* (isFutureMonth_Never: the variant for which no month is in the future.)
isFutureMonth_Never(date, nowDate) == FALSE

isFutureMonth(date, nowDate) ==
    MonthIndex(MakeDate(date.y, date.m, 1, 0)) >
    MonthIndex(MakeDate(nowDate.y, nowDate.m, 1, 0))

\* ------------------------------------------------------------ user inputs

Salary == Word("Salary")
Gift == Word("Gift")
Freelance == Word("Freelance")
Food == Word("Food")
Transport == Word("Transport")
Shopping == Word("Shopping")
Bills == Word("Bills")

SeedCategories ==
    [Income |-> <<Salary, Gift, Freelance>>,
     Expense |-> <<Food, Transport, Shopping, Bills>>]

\* What the user types into the amount field: nothing, texts that are no
\* number, numbers, a number followed by something else.
AmountTexts == {EmptyStr, <<"x">>, <<Space>>, <<"5">>, <<"1", "2">>, <<"7", "x">>}

\* What the user types into the note field.
Notes == {Word("lunch")}

\* ------------------------------------------------------------- persistence

\* STORAGE_KEYS: the three slots.
Slots == {"transactions", "categories", "theme"}

\* A stored item that JSON.parse rejects.
Corrupt == [corrupt |-> TRUE]

\* JSON.stringify of an amount: NaN is written as null.
StringifyAmount(a) == IF a.nan THEN JsonNull ELSE a

\* JSON.stringify(transactions) and JSON.stringify(categories): the blob keeps
\* the structure, the fields and the order.
StringifyTransactions(txs) ==
    [json |-> [i \in 1..Len(txs) |->
                  [txs[i] EXCEPT !.amount = StringifyAmount(txs[i].amount)]]]

StringifyCategories(cats) == [json |-> cats]

\* JSON.parse(blob), for a blob that is not Corrupt.
JsonParse(blob) == blob.json

\* What the three save effects write for a state of the app.
Serialized(txs, cats, th) ==
    [transactions |-> StringifyTransactions(txs),
     categories |-> StringifyCategories(cats),
     theme |-> th]

\* A store in which every slot holds what a save of that state writes.
StoreOf(txs, cats, th) ==
    [slot \in Slots |-> <<Serialized(txs, cats, th)[slot]>>]

AllReads(status) == [slot \in Slots |-> status]

NoWrites == [slot \in Slots |-> {}]

\* ------------------------------------------------------------------- state

NoAlert == << >>
Null == << >>

BlankForm == [type |-> "Expense", amount |-> EmptyStr, category |-> EmptyStr,
              note |-> EmptyStr]

\* The devices the app is started on: the real-world date and the zone.
StartDates == {[y |-> 2024, m |-> 0, d |-> 15, h |-> 22]}
Zones == {0 - 5}

\* The app on a device whose store was empty, once the startup load is over
\* and its three saves are done.
Init ==
    /\ transactions = << >>
    /\ categories = SeedCategories
    /\ modalVisible = FALSE
    /\ newTransaction = BlankForm
    /\ newCategoryName = EmptyStr
    /\ isAddingCategory = FALSE
    /\ today \in StartDates
    /\ tz \in Zones
    /\ currentDate = today
    /\ pickerVisible = FALSE
    /\ pickerYear = today.y
    /\ deleteModalVisible = FALSE
    /\ categoryToDelete = Null
    /\ reassignCategory = EmptyStr
    /\ alert = NoAlert
    /\ now = 1
    /\ last = [op |-> "init"]
    /\ theme = "light"
    /\ isLoaded = TRUE
    /\ reads = AllReads("resolved")
    /\ storage = StoreOf(<< >>, SeedCategories, "light")
    /\ writes = NoWrites

\* Which surface receives touches: a native Alert is on top of everything, the
\* conflict dialog is on top of the entry form, the entry form and the month
\* picker are on top of the main screen. The main screen, the entry form and
\* the month picker are rendered once isLoaded; the conflict dialog is
\* rendered outside that gate.
OnMainScreen ==
    /\ isLoaded
    /\ alert = NoAlert /\ ~deleteModalVisible /\ ~modalVisible /\ ~pickerVisible
OnEntryForm == isLoaded /\ alert = NoAlert /\ ~deleteModalVisible /\ modalVisible
OnMonthPicker == isLoaded /\ alert = NoAlert /\ ~deleteModalVisible /\ pickerVisible
OnConflictDialog == alert = NoAlert /\ deleteModalVisible

Ui == [op |-> "ui"]

\* --------------------------------------------------------- pure operations

\* handleAddTransaction, the date of the new record: the real-world day of the
\* month applied to the reference month, set back to "day 0" when it rolled over.
TransactionDate_NoRollover(cur, nowDate) == SetDate(cur, nowDate.d)

TransactionDate(cur, nowDate) ==
    LET transactionDate == SetDate(cur, nowDate.d)
    IN  IF transactionDate.m # cur.m THEN SetDate(transactionDate, 0)
        ELSE transactionDate

\* handleAddTransaction, the new record: id, dates, the form's fields, and the
\* amount replaced by parseFloat of its text.
NewRecord(form, cur, nowDate, clock, zone) ==
    LET transactionDate == TransactionDate(cur, nowDate)
    IN  [id |-> ToString(clock),
         dateISO |-> ToISOString(transactionDate, zone),
         displayDate |-> ToLocaleDateString(transactionDate),
         type |-> form.type,
         amount |-> ParseFloat(form.amount),
         category |-> form.category,
         note |-> form.note]

\* The validation of handleAddTransaction: !amount || !category.
MissingInfo(form) == ~Truthy(form.amount) \/ ~Truthy(form.category)

\* setTransactions([transaction, ...transactions])
Prepend_AtEnd(transaction, txs) == txs \o <<transaction>>

Prepend(transaction, txs) == <<transaction>> \o txs

\* prev.filter(t => t.id !== id)
RemoveById(txs, id) ==
    LET Keep(t) == t.id # id
    IN  SelectSeq(txs, Keep)

\* transactions.some(t => t.category === categoryName && t.type === type)
hasTransactions(txs, categoryName, type) ==
    \E i \in 1..Len(txs) : txs[i].category = categoryName /\ txs[i].type = type

\* updatedTransactions.filter(t => !(t.category === categoryName && t.type === type))
DeleteDependents_AnyType(txs, categoryName, type) ==
    LET Keep(t) == ~(t.category = categoryName)
    IN  SelectSeq(txs, Keep)

\* (DeleteDependents_Uncategorises: the variant that keeps the dependents and
\* empties their category.)
DeleteDependents_Uncategorises(txs, categoryName, type) ==
    [i \in 1..Len(txs) |->
        IF txs[i].category = categoryName /\ txs[i].type = type
        THEN [txs[i] EXCEPT !.category = EmptyStr]
        ELSE txs[i]]

DeleteDependents_WholeType(txs, categoryName, type) ==
    LET Keep(t) == ~(t.type = type)
    IN  SelectSeq(txs, Keep)

DeleteDependents(txs, categoryName, type) ==
    LET Keep(t) == ~(t.category = categoryName /\ t.type = type)
    IN  SelectSeq(txs, Keep)

\* updatedTransactions.map(t => matches ? { ...t, category: reassignCategory } : t)
ReassignDependents(txs, categoryName, type, target) ==
    [i \in 1..Len(txs) |->
        IF txs[i].category = categoryName /\ txs[i].type = type
        THEN [txs[i] EXCEPT !.category = target]
        ELSE txs[i]]

\* { ...prev, [type]: prev[type].filter(c => c !== categoryName) }
RemoveCategory(cats, type, categoryName) ==
    LET Keep(c) == c # categoryName
    IN  [cats EXCEPT ![type] = SelectSeq(@, Keep)]

\* categories[newTransaction.type].includes(newCategoryName.trim())
IsDuplicateCategory_Untrimmed(cats, type, text) == Includes(cats[type], text)

IsDuplicateCategory(cats, type, text) == Includes(cats[type], Trim(text))

\* { ...prev, [type]: [...prev[type], name] }
\* (AppendCategory_AtFront: the variant that puts the name before the others.)
AppendCategory_AtFront(cats, type, name) == [cats EXCEPT ![type] = <<name>> \o @]

AppendCategory(cats, type, name) == [cats EXCEPT ![type] = Append(@, name)]

\* transactions.filter(t => isSameMonth(t.dateISO, currentDate))
getFilteredTransactions(txs, cur, zone) ==
    LET Keep(t) == isSameMonth(t.dateISO, cur, zone)
    IN  SelectSeq(txs, Keep)

\* The chips of the conflict dialog: the list of the pending type without the
\* pending name.
ReassignChips(cats, pending) ==
    LET Keep(c) == c # pending.name
    IN  SelectSeq(cats[pending.type], Keep)

\* ------------------------------------------------------------ derived view

\* .reduce((acc, curr) => acc + Number(curr.amount), 0)
RECURSIVE SumAmounts(_)
SumAmounts(txs) ==
    IF txs = << >> THEN Num(0)
    ELSE Plus(SumAmounts(SubSeq(txs, 1, Len(txs) - 1)), txs[Len(txs)].amount)

OfType(txs, type) ==
    LET Keep(t) == t.type = type
    IN  SelectSeq(txs, Keep)

\* getTotals() on the filtered transactions.
getTotals_IncomeOnly(filtered) ==
    [income |-> SumAmounts(OfType(filtered, "Income")),
     expense |-> Num(0),
     balance |-> SumAmounts(OfType(filtered, "Income"))]

getTotals(filtered) ==
    LET income == SumAmounts(OfType(filtered, "Income"))
        expense == SumAmounts(OfType(filtered, "Expense"))
    IN  [income |-> income, expense |-> expense, balance |-> Minus(income, expense)]

\* `${t.type}-${t.category}`
GroupKey_CategoryOnly(t) == t.category

GroupKey(t) == <<t.type, "-">> \o t.category

\* One pass of the forEach of getGroupedTransactions: the group of t's key is
\* created behind the others when it is not there, t is pushed to it and its
\* amount added to the total.
AddToGroups(groups, t) ==
    LET key == GroupKey(t)
    IN  IF \E i \in 1..Len(groups) : groups[i].key = key
        THEN [i \in 1..Len(groups) |->
                 IF groups[i].key = key
                 THEN [groups[i] EXCEPT !.transactions = Append(@, t),
                                        !.total = Plus(@, t.amount)]
                 ELSE groups[i]]
        ELSE Append(groups,
                    [key |-> key, category |-> t.category, type |-> t.type,
                     total |-> Plus(Num(0), t.amount), transactions |-> <<t>>])

\* Object.values(groups): the groups in the order their keys were created.
RECURSIVE GroupsOf(_)
GroupsOf(filtered) ==
    IF filtered = << >> THEN << >>
    ELSE AddToGroups(GroupsOf(SubSeq(filtered, 1, Len(filtered) - 1)),
                     filtered[Len(filtered)])

\* The comparator of the sort, as the sort reads it: the sign of its result,
\* a NaN result read as 0.
CompareGroups(a, b) ==
    IF a.type # b.type THEN (IF a.type = "Income" THEN 0 - 1 ELSE 1)
    ELSE LET diff == Minus(b.total, a.total)
         IN  IF diff.nan \/ diff.v = 0 THEN 0
             ELSE IF diff.v < 0 THEN 0 - 1 ELSE 1

\* The comparator is a consistent comparator for these groups (ECMA-262,
\* Array.prototype.sort): its equality and its orders are transitive.
ConsistentComparator(groups) ==
    \A i, j, k \in 1..Len(groups) :
        LET a == groups[i]
            b == groups[j]
            c == groups[k]
        IN  /\ (CompareGroups(a, b) = 0 /\ CompareGroups(b, c) = 0)
                  => CompareGroups(a, c) = 0
            /\ (CompareGroups(a, b) < 0 /\ CompareGroups(b, c) < 0)
                  => CompareGroups(a, c) < 0
            /\ (CompareGroups(a, b) > 0 /\ CompareGroups(b, c) > 0)
                  => CompareGroups(a, c) > 0
            /\ (CompareGroups(a, b) < 0) <=> (CompareGroups(b, a) > 0)

\* A stable sort by insertion: g goes before the first group it is less than.
RECURSIVE InsertGroup(_, _)
InsertGroup(sorted, g) ==
    IF sorted = << >> THEN <<g>>
    ELSE IF CompareGroups(g, Head(sorted)) < 0 THEN <<g>> \o sorted
    ELSE <<Head(sorted)>> \o InsertGroup(Tail(sorted), g)

RECURSIVE StableSort(_)
StableSort(groups) ==
    IF groups = << >> THEN << >>
    ELSE InsertGroup(StableSort(SubSeq(groups, 1, Len(groups) - 1)),
                     groups[Len(groups)])

Reorderings(groups) ==
    {[i \in 1..Len(groups) |-> groups[p[i]]] :
        p \in {q \in [1..Len(groups) -> 1..Len(groups)] :
                  \A i, j \in 1..Len(groups) : i # j => q[i] # q[j]}}

\* Array.prototype.sort(comparator): the stable sorted order when the
\* comparator is consistent, an implementation-defined order when it is not.
SortGroups(groups) ==
    IF ConsistentComparator(groups) THEN {StableSort(groups)}
    ELSE Reorderings(groups)

\* getGroupedTransactions() on the filtered transactions: the lists it may
\* return.
getGroupedTransactions(filtered) == SortGroups(GroupsOf(filtered))

\* ----------------------------------------------------------------- actions

formVars == <<modalVisible, newTransaction, newCategoryName, isAddingCategory>>
loadVars == <<theme, isLoaded, reads>>
navVars == <<currentDate, pickerVisible, pickerYear>>
dialogVars == <<deleteModalVisible, categoryToDelete, reassignCategory>>
envVars == <<now, today, tz>>

\* The floating "+" button, rendered unless the viewed month is in the future.
OpenModal ==
    /\ OnMainScreen
    /\ ~isFutureMonth(currentDate, today)
    /\ modalVisible' = TRUE
    /\ last' = Ui
    /\ UNCHANGED <<transactions, categories, newTransaction, newCategoryName,
                   isAddingCategory, navVars, dialogVars, alert, envVars, loadVars>>

\* Cancel of the entry form, or the platform's request-close of its modal.
CloseModal ==
    /\ OnEntryForm
    /\ modalVisible' = FALSE
    /\ last' = Ui
    /\ UNCHANGED <<transactions, categories, newTransaction, newCategoryName,
                   isAddingCategory, navVars, dialogVars, alert, envVars, loadVars>>

\* The type switcher: sets the type and clears the selected category.
SelectType(type) ==
    /\ OnEntryForm
    /\ newTransaction' = [newTransaction EXCEPT !.type = type, !.category = EmptyStr]
    /\ last' = Ui
    /\ UNCHANGED <<transactions, categories, modalVisible, newCategoryName,
                   isAddingCategory, navVars, dialogVars, alert, envVars, loadVars>>

SetAmount(text) ==
    /\ OnEntryForm
    /\ newTransaction' = [newTransaction EXCEPT !.amount = text]
    /\ last' = Ui
    /\ UNCHANGED <<transactions, categories, modalVisible, newCategoryName,
                   isAddingCategory, navVars, dialogVars, alert, envVars, loadVars>>

SetNote(text) ==
    /\ OnEntryForm
    /\ newTransaction' = [newTransaction EXCEPT !.note = text]
    /\ last' = Ui
    /\ UNCHANGED <<transactions, categories, modalVisible, newCategoryName,
                   isAddingCategory, navVars, dialogVars, alert, envVars, loadVars>>

\* A tap on a category chip; the chips are rendered while no category is being added.
SelectCategory(cat) ==
    /\ OnEntryForm
    /\ ~isAddingCategory
    /\ Includes(categories[newTransaction.type], cat)
    /\ newTransaction' = [newTransaction EXCEPT !.category = cat]
    /\ last' = Ui
    /\ UNCHANGED <<transactions, categories, modalVisible, newCategoryName,
                   isAddingCategory, navVars, dialogVars, alert, envVars, loadVars>>

\* "+ Add New" and the "X" beside the new-category input.
SetIsAddingCategory(b) ==
    /\ OnEntryForm
    /\ isAddingCategory # b
    /\ isAddingCategory' = b
    /\ last' = Ui
    /\ UNCHANGED <<transactions, categories, modalVisible, newTransaction,
                   newCategoryName, navVars, dialogVars, alert, envVars, loadVars>>

SetNewCategoryName(text) ==
    /\ OnEntryForm
    /\ isAddingCategory
    /\ newCategoryName' = text
    /\ last' = Ui
    /\ UNCHANGED <<transactions, categories, modalVisible, newTransaction,
                   isAddingCategory, navVars, dialogVars, alert, envVars, loadVars>>

\* "Save Transaction".
handleAddTransaction ==
    /\ OnEntryForm
    /\ IF MissingInfo(newTransaction)
       THEN /\ alert' = <<[kind |-> "notice", title |-> "Missing Info"]>>
            /\ last' = [op |-> "addRejected"]
            /\ UNCHANGED <<transactions, categories, formVars, navVars, dialogVars,
                           envVars, loadVars>>
       ELSE /\ Len(transactions) < MaxTx
            /\ now <= MaxClock
            /\ transactions' =
                   Prepend(NewRecord(newTransaction, currentDate, today, now, tz),
                           transactions)
            /\ modalVisible' = FALSE
            /\ newTransaction' = BlankForm
            /\ newCategoryName' = EmptyStr
            /\ isAddingCategory' = FALSE
            \* at least a millisecond passes before the next event
            /\ now' = now + 1
            /\ last' = [op |-> "add", form |-> newTransaction]
            /\ UNCHANGED <<categories, navVars, dialogVars, alert, today, tz, loadVars>>

\* A long press on a transaction of the viewed month.
confirmDelete(id) ==
    /\ OnMainScreen
    /\ \E i \in 1..Len(transactions) :
          /\ transactions[i].id = id
          /\ isSameMonth(transactions[i].dateISO, currentDate, tz)
    /\ alert' = <<[kind |-> "confirmDeleteTransaction", id |-> id]>>
    /\ last' = Ui
    /\ UNCHANGED <<transactions, categories, formVars, navVars, dialogVars, envVars,
                   loadVars>>

\* "Add" beside the new-category input.
handleAddNewCategory ==
    /\ OnEntryForm
    /\ isAddingCategory
    /\ LET name == Trim(newCategoryName)
           type == newTransaction.type
       IN  IF ~Truthy(name)
           THEN /\ last' = [op |-> "addCategoryRejected"]
                /\ UNCHANGED <<transactions, categories, formVars, navVars,
                               dialogVars, alert, envVars, loadVars>>
           ELSE IF IsDuplicateCategory(categories, type, newCategoryName)
           THEN /\ alert' = <<[kind |-> "notice", title |-> "Error"]>>
                /\ last' = [op |-> "addCategoryRejected"]
                /\ UNCHANGED <<transactions, categories, formVars, navVars,
                               dialogVars, envVars, loadVars>>
           ELSE /\ Len(categories.Income) + Len(categories.Expense) < MaxCats
                /\ categories' = AppendCategory(categories, type, name)
                /\ newTransaction' = [newTransaction EXCEPT !.category = name]
                /\ newCategoryName' = EmptyStr
                /\ isAddingCategory' = FALSE
                /\ last' = [op |-> "addCategory", type |-> type, name |-> name]
                /\ UNCHANGED <<transactions, modalVisible, navVars, dialogVars,
                               alert, envVars, loadVars>>

\* A long press on a category chip of the entry form.
handleDeleteCategoryInitiation(categoryName) ==
    /\ OnEntryForm
    /\ ~isAddingCategory
    /\ Includes(categories[newTransaction.type], categoryName)
    /\ LET type == newTransaction.type
       IN  IF hasTransactions(transactions, categoryName, type)
           THEN /\ categoryToDelete' = <<[name |-> categoryName, type |-> type]>>
                /\ deleteModalVisible' = TRUE
                /\ UNCHANGED <<alert, reassignCategory>>
           ELSE \* the Alert's Delete button keeps this render's closure
                /\ alert' = <<[kind |-> "confirmDeleteCategory",
                                name |-> categoryName, type |-> type,
                                closure |-> transactions]>>
                /\ UNCHANGED dialogVars
    /\ last' = Ui
    /\ UNCHANGED <<transactions, categories, formVars, navVars, envVars, loadVars>>

\* if (newTransaction.category === categoryName)
\*     setNewTransaction(prev => ({ ...prev, category: '' }))
\* (ResetSelection_Never: the variant that leaves the form alone.)
ResetSelection_Never(form, categoryName) == form

ResetSelection(form, categoryName) ==
    IF form.category = categoryName THEN [form EXCEPT !.category = EmptyStr]
    ELSE form

\* executeCategoryDeletion(categoryName, type, action), called from a render
\* whose transactions are closureTx.
executeCategoryDeletion(categoryName, type, action, closureTx) ==
    IF action = "reassign" /\ ~Truthy(reassignCategory)
    THEN /\ alert' = <<[kind |-> "notice", title |-> "Error"]>>
         /\ last' = [op |-> "deleteCategoryRejected"]
         /\ UNCHANGED <<transactions, categories, formVars, navVars, dialogVars,
                        envVars, loadVars>>
    ELSE /\ transactions' =
                IF action = "delete"
                THEN DeleteDependents(closureTx, categoryName, type)
                ELSE ReassignDependents(closureTx, categoryName, type,
                                        reassignCategory)
         /\ categories' = RemoveCategory(categories, type, categoryName)
         /\ newTransaction' = ResetSelection(newTransaction, categoryName)
         /\ deleteModalVisible' = FALSE
         /\ categoryToDelete' = Null
         /\ reassignCategory' = EmptyStr
         /\ last' = [op |-> "deleteCategory", action |-> action,
                     name |-> categoryName, type |-> type,
                     target |-> IF action = "reassign" THEN reassignCategory
                                ELSE EmptyStr,
                     prompt |-> IF alert = NoAlert THEN "dialog" ELSE "alert",
                     before |-> closureTx]
         /\ alert' = NoAlert
         /\ UNCHANGED <<modalVisible, newCategoryName, isAddingCategory, navVars,
                        envVars, loadVars>>

\* The button of an Alert that only closes it: Cancel, or OK of a notice.
AlertDismiss ==
    /\ alert # NoAlert
    /\ alert' = NoAlert
    /\ last' = [op |-> "dismiss", kind |-> alert[1].kind]
    /\ UNCHANGED <<transactions, categories, formVars, navVars, dialogVars, envVars,
                   loadVars>>

\* "Delete" of the Alert of confirmDelete.
AlertDeleteTransaction ==
    /\ alert # NoAlert
    /\ alert[1].kind = "confirmDeleteTransaction"
    /\ transactions' = RemoveById(transactions, alert[1].id)
    /\ alert' = NoAlert
    /\ last' = [op |-> "remove", id |-> alert[1].id]
    /\ UNCHANGED <<categories, formVars, navVars, dialogVars, envVars, loadVars>>

\* "Delete" of the Alert of handleDeleteCategoryInitiation.
AlertDeleteCategory ==
    /\ alert # NoAlert
    /\ alert[1].kind = "confirmDeleteCategory"
    /\ executeCategoryDeletion(alert[1].name, alert[1].type, "delete",
                               alert[1].closure)

\* A tap on a chip of the conflict dialog.
SetReassignCategory(cat) ==
    /\ OnConflictDialog
    /\ categoryToDelete # Null
    /\ Includes(ReassignChips(categories, categoryToDelete[1]), cat)
    /\ reassignCategory' = cat
    /\ last' = Ui
    /\ UNCHANGED <<transactions, categories, formVars, navVars, deleteModalVisible,
                   categoryToDelete, alert, envVars, loadVars>>

\* "Delete All Transactions".
DialogDeleteAll ==
    /\ OnConflictDialog
    /\ categoryToDelete # Null
    /\ executeCategoryDeletion(categoryToDelete[1].name, categoryToDelete[1].type,
                               "delete", transactions)

\* "Reassign & Delete Category", disabled while no target is set.
DialogReassign ==
    /\ OnConflictDialog
    /\ categoryToDelete # Null
    /\ Truthy(reassignCategory)
    /\ executeCategoryDeletion(categoryToDelete[1].name, categoryToDelete[1].type,
                               "reassign", transactions)

\* onPress of "Reassign & Delete Category" run whatever the disabled prop of
\* the button says: executeCategoryDeletion has its own guard for the target.
ReassignOnPress ==
    /\ OnConflictDialog
    /\ categoryToDelete # Null
    /\ executeCategoryDeletion(categoryToDelete[1].name, categoryToDelete[1].type,
                               "reassign", transactions)

\* "Cancel" of the conflict dialog.
DialogCancel ==
    /\ OnConflictDialog
    /\ deleteModalVisible' = FALSE
    /\ categoryToDelete' = Null
    /\ reassignCategory' = EmptyStr
    /\ last' = [op |-> "dialogCancel"]
    /\ UNCHANGED <<transactions, categories, formVars, navVars, alert, envVars, loadVars>>

\* onRequestClose of the conflict dialog (the platform's back dismissal).
DialogRequestClose ==
    /\ OnConflictDialog
    /\ deleteModalVisible' = FALSE
    /\ last' = [op |-> "dialogRequestClose"]
    /\ UNCHANGED <<transactions, categories, formVars, navVars, categoryToDelete,
                   reassignCategory, alert, envVars, loadVars>>

\* The month arrows.
changeMonth(direction) ==
    /\ OnMainScreen
    /\ LET newDate == SetMonth(currentDate, currentDate.m + direction)
       IN  /\ MonthIndex(newDate) - MonthIndex(today) \in (0 - MaxNav)..MaxNav
           /\ currentDate' = newDate
    /\ last' = Ui
    /\ UNCHANGED <<transactions, categories, formVars, pickerVisible, pickerYear,
                   dialogVars, alert, envVars, loadVars>>

openPicker ==
    /\ OnMainScreen
    /\ pickerYear' = currentDate.y
    /\ pickerVisible' = TRUE
    /\ last' = Ui
    /\ UNCHANGED <<transactions, categories, formVars, currentDate, dialogVars,
                   alert, envVars, loadVars>>

\* The year arrows of the month picker.
SetPickerYear(step) ==
    /\ OnMonthPicker
    /\ (pickerYear + step) - today.y \in (0 - MaxYears)..MaxYears
    /\ pickerYear' = pickerYear + step
    /\ last' = Ui
    /\ UNCHANGED <<transactions, categories, formVars, currentDate, pickerVisible,
                   dialogVars, alert, envVars, loadVars>>

\* A tap on a month cell: new Date(pickerYear, monthIndex, 1).
selectMonthYear(monthIndex) ==
    /\ OnMonthPicker
    /\ currentDate' = MakeDate(pickerYear, monthIndex, 1, 0)
    /\ pickerVisible' = FALSE
    /\ last' = Ui
    /\ UNCHANGED <<transactions, categories, formVars, pickerYear, dialogVars,
                   alert, envVars, loadVars>>

\* "Close" of the month picker, or the platform's request-close of its modal.
ClosePicker ==
    /\ OnMonthPicker
    /\ pickerVisible' = FALSE
    /\ last' = Ui
    /\ UNCHANGED <<transactions, categories, formVars, currentDate, pickerYear,
                   dialogVars, alert, envVars, loadVars>>

\* The system clock moves on between two events.
Tick ==
    /\ now <= MaxClock
    /\ now' = now + 1
    /\ last' = [op |-> "env"]
    /\ UNCHANGED <<transactions, categories, formVars, navVars, dialogVars, alert,
                   today, tz, loadVars>>

\* The wall clock is set back (by the user or by a time synchronisation):
\* Date.now() is not monotonic.
ClockSetBack ==
    /\ \E t \in 1..(now - 1) : now' = t
    /\ last' = [op |-> "env"]
    /\ UNCHANGED <<transactions, categories, formVars, navVars, dialogVars, alert,
                   today, tz, loadVars>>

\* The system clock moves on into the next month between two events: new Date()
\* then reads the first day of that month.
MonthPasses ==
    /\ \E start \in StartDates : MonthIndex(today) < MonthIndex(start) + MaxMonthsOn
    /\ now <= MaxClock
    /\ today' = MakeDate(today.y, today.m + 1, 1, today.h)
    /\ now' = now + 1
    /\ last' = [op |-> "env"]
    /\ UNCHANGED <<transactions, categories, formVars, navVars, dialogVars, alert,
                   tz, loadVars>>

\* The sun / moon button of the header.
toggleTheme ==
    /\ OnMainScreen
    /\ theme' = IF theme = "light" THEN "dark" ELSE "light"
    /\ last' = [op |-> "toggleTheme"]
    /\ UNCHANGED <<transactions, categories, formVars, navVars, dialogVars, alert,
                   envVars, isLoaded, reads>>

\* ------------------------------------------------------- load and save

\* The body of loadData after the await, on the items read: each item that is
\* there is parsed and set, in the order transactions, categories, theme; a
\* JSON.parse that throws leaves what was set before it and skips the rest.
LoadedState(store, txs, cats, th) ==
    LET t == store.transactions
        c == store.categories
        h == store.theme
        txs1 == IF t # << >> /\ t[1] # Corrupt THEN JsonParse(t[1]) ELSE txs
        cats1 == IF c # << >> /\ c[1] # Corrupt THEN JsonParse(c[1]) ELSE cats
    IN  IF t # << >> /\ t[1] = Corrupt
        THEN [transactions |-> txs, categories |-> cats, theme |-> th,
              failed |-> TRUE]
        ELSE IF c # << >> /\ c[1] = Corrupt
        THEN [transactions |-> txs1, categories |-> cats, theme |-> th,
              failed |-> TRUE]
        ELSE [transactions |-> txs1, categories |-> cats1,
              theme |-> IF h # << >> THEN h[1] ELSE th, failed |-> FALSE]

\* Promise.all of the three reads is settled: all of them are resolved, or one
\* of them is rejected (the others may still be pending).
\* (ReadsSettled_AllResolved: the variant that goes on only when all resolve.)
ReadsRejected == \E slot \in Slots : reads[slot] = "rejected"
ReadsSettled_AllResolved == \A slot \in Slots : reads[slot] = "resolved"

ReadsSettled == ReadsRejected \/ \A slot \in Slots : reads[slot] = "resolved"

\* loadData from the await on: try, catch and finally.
loadData ==
    /\ ~isLoaded
    /\ ReadsSettled
    /\ LET loaded == IF ReadsRejected
                     THEN [transactions |-> transactions, categories |-> categories,
                           theme |-> theme, failed |-> TRUE]
                     ELSE LoadedState(storage, transactions, categories, theme)
       IN  /\ transactions' = loaded.transactions
           /\ categories' = loaded.categories
           /\ theme' = loaded.theme
           /\ alert' = IF loaded.failed
                       THEN <<[kind |-> "notice", title |-> "Error"]>>
                       ELSE alert
           /\ last' = [op |-> "load", failed |-> loaded.failed]
    /\ isLoaded' = TRUE
    /\ UNCHANGED <<formVars, navVars, dialogVars, envVars, reads>>

\* A getItem of loadData is answered by the store, or fails.
StorageReadResolves(slot) ==
    /\ reads[slot] = "pending"
    /\ reads' = [reads EXCEPT ![slot] = "resolved"]
    /\ last' = [op |-> "env"]
    /\ UNCHANGED <<transactions, categories, formVars, navVars, dialogVars, alert,
                   envVars, theme, isLoaded, storage, writes>>

StorageReadRejects(slot) ==
    /\ reads[slot] = "pending"
    /\ reads' = [reads EXCEPT ![slot] = "rejected"]
    /\ last' = [op |-> "env"]
    /\ UNCHANGED <<transactions, categories, formVars, navVars, dialogVars, alert,
                   envVars, theme, isLoaded, storage, writes>>

\* The handlers whose state setter a save effect depends on, by slot.
SetterOps ==
    [transactions |-> {"add", "remove", "deleteCategory"},
     categories |-> {"addCategory", "deleteCategory"},
     theme |-> {"toggleTheme"}]

\* The three save effects after the render that follows a handler: an effect
\* runs when isLoaded or its state changed, and saves when isLoaded.
IssuedSlots ==
    IF ~isLoaded' THEN {}
    ELSE {slot \in Slots : ~isLoaded \/ last'.op \in SetterOps[slot]}

InFlight(ws) ==
    Cardinality(ws.transactions) + Cardinality(ws.categories) + Cardinality(ws.theme)

\* The saves of this step are in flight when the handler returns.
SavesQueued ==
    /\ writes' =
          [slot \in Slots |->
              IF slot \in IssuedSlots
              THEN writes[slot] \cup
                   {Serialized(transactions', categories', theme')[slot]}
              ELSE writes[slot]]
    /\ InFlight(writes') <= MaxInFlight
    /\ storage' = storage

\* The saves of this step are done before the next event: a fast store.
SavesCompleteAtOnce ==
    /\ writes' = writes
    /\ storage' =
          [slot \in Slots |->
              IF slot \in IssuedSlots
              THEN <<Serialized(transactions', categories', theme')[slot]>>
              ELSE storage[slot]]

\* A handler, the render that follows it and the save effects of that render:
\* the saves done before the next event, or left in flight.
ThenSaved(handler) == handler /\ SavesCompleteAtOnce

ThenQueued(handler) == handler /\ SavesQueued

\* A setItem in flight is done: the slot holds its blob.
StorageWriteResolves(slot, blob) ==
    /\ blob \in writes[slot]
    /\ storage' = [storage EXCEPT ![slot] = <<blob>>]
    /\ writes' = [writes EXCEPT ![slot] = @ \ {blob}]
    /\ last' = [op |-> "saved", slot |-> slot]
    /\ UNCHANGED <<transactions, categories, formVars, navVars, dialogVars, alert,
                   envVars, loadVars>>

\* A setItem in flight fails: .catch(e => console.error(e)).
\* (StorageWriteRejects_RollsBack: the variant that sets the ledger back to
\* what the slot holds.)
StorageWriteRejects_RollsBack(slot, blob) ==
    /\ blob \in writes[slot]
    /\ writes' = [writes EXCEPT ![slot] = @ \ {blob}]
    /\ last' = [op |-> "saveFailed", slot |-> slot]
    /\ transactions' =
          IF slot = "transactions" /\ storage[slot] # << >>
          THEN JsonParse(storage[slot][1])
          ELSE transactions
    /\ UNCHANGED <<categories, formVars, navVars, dialogVars, alert, envVars,
                   loadVars, storage>>

StorageWriteRejects(slot, blob) ==
    /\ blob \in writes[slot]
    /\ writes' = [writes EXCEPT ![slot] = @ \ {blob}]
    /\ last' = [op |-> "saveFailed", slot |-> slot]
    /\ UNCHANGED <<transactions, categories, formVars, navVars, dialogVars, alert,
                   envVars, loadVars, storage>>

\* ---------------------------------------------------------- specifications

\* The specifications run the handlers above and differ in what the user
\* does. Unless said otherwise the app has been started on an empty store and
\* the store completes every save before the next event.

\* The category lifecycle: the user fills the form for both types with one
\* amount, touches the chips Food, Bills and Salary, adds and removes
\* transactions and deletes categories, every way the dialogs allow.
Next ==
    \/ ThenSaved(OpenModal)
    \/ ThenSaved(CloseModal)
    \/ \E type \in Types : ThenSaved(SelectType(type))
    \/ ThenSaved(SetAmount(<<"5">>))
    \/ \E cat \in {Food, Bills, Salary} : ThenSaved(SelectCategory(cat))
    \/ ThenSaved(handleAddTransaction)
    \/ \E i \in 1..Len(transactions) : ThenSaved(confirmDelete(transactions[i].id))
    \/ \E cat \in {Food, Bills, Salary} : ThenSaved(handleDeleteCategoryInitiation(cat))
    \/ ThenSaved(AlertDismiss)
    \/ ThenSaved(AlertDeleteTransaction)
    \/ ThenSaved(AlertDeleteCategory)
    \/ \E cat \in {Food, Bills, Salary} : ThenSaved(SetReassignCategory(cat))
    \/ ThenSaved(DialogDeleteAll)
    \/ ThenSaved(DialogReassign)
    \/ ThenSaved(DialogCancel)
    \/ ThenSaved(DialogRequestClose)

Spec == Init /\ [][Next]_vars

\* The months: the user adds the category " Food " under either type (a
\* duplicate under Expense, a second Food under Income), walks the months
\* with the arrows, adds transactions under Food and deletes Food.
NextMonths ==
    \/ ThenSaved(OpenModal)
    \/ ThenSaved(CloseModal)
    \/ \E type \in Types : ThenSaved(SelectType(type))
    \/ ThenSaved(SetAmount(<<"5">>))
    \/ ThenSaved(SelectCategory(Food))
    \/ \E b \in BOOLEAN : ThenSaved(SetIsAddingCategory(b))
    \/ ThenSaved(SetNewCategoryName(<<Space, "Food", Space>>))
    \/ ThenSaved(handleAddNewCategory)
    \/ ThenSaved(handleAddTransaction)
    \/ ThenSaved(handleDeleteCategoryInitiation(Food))
    \/ ThenSaved(AlertDismiss)
    \/ ThenSaved(AlertDeleteCategory)
    \/ ThenSaved(DialogDeleteAll)
    \/ ThenSaved(DialogCancel)
    \/ \E direction \in {0 - 1, 1} : ThenSaved(changeMonth(direction))

SpecMonths == Init /\ [][NextMonths]_vars

\* The registry: the user types new category names (blank, " Food "), under
\* both types, and deletes Food and Bills every way the dialogs allow.
NextRegistry ==
    \/ ThenSaved(OpenModal)
    \/ ThenSaved(CloseModal)
    \/ \E type \in Types : ThenSaved(SelectType(type))
    \/ ThenSaved(SetAmount(<<"5">>))
    \/ \E cat \in {Food, Bills} : ThenSaved(SelectCategory(cat))
    \/ \E b \in BOOLEAN : ThenSaved(SetIsAddingCategory(b))
    \/ \E text \in {<<Space>>, <<Space, "Food", Space>>} : ThenSaved(SetNewCategoryName(text))
    \/ ThenSaved(handleAddNewCategory)
    \/ ThenSaved(handleAddTransaction)
    \/ \E cat \in {Food, Bills} : ThenSaved(handleDeleteCategoryInitiation(cat))
    \/ ThenSaved(AlertDismiss)
    \/ ThenSaved(AlertDeleteCategory)
    \/ \E cat \in {Food, Bills} : ThenSaved(SetReassignCategory(cat))
    \/ ThenSaved(DialogDeleteAll)
    \/ ThenSaved(DialogReassign)
    \/ ThenSaved(DialogCancel)
    \/ ThenSaved(DialogRequestClose)

SpecRegistry == Init /\ [][NextRegistry]_vars

\* The clock: the user adds transactions under Food and removes them while
\* the millisecond clock moves on or is set back.
NextClock ==
    \/ ThenSaved(OpenModal)
    \/ ThenSaved(CloseModal)
    \/ ThenSaved(SetAmount(<<"5">>))
    \/ ThenSaved(SelectCategory(Food))
    \/ ThenSaved(handleAddTransaction)
    \/ \E i \in 1..Len(transactions) : ThenSaved(confirmDelete(transactions[i].id))
    \/ ThenSaved(AlertDismiss)
    \/ ThenSaved(AlertDeleteTransaction)
    \/ ThenSaved(Tick)
    \/ ThenSaved(ClockSetBack)

SpecClock == Init /\ [][NextClock]_vars

\* The entry form: the user types every amount text and a note, with or
\* without a category, and saves.
NextForm ==
    \/ ThenSaved(OpenModal)
    \/ ThenSaved(CloseModal)
    \/ \E type \in Types : ThenSaved(SelectType(type))
    \/ \E text \in AmountTexts : ThenSaved(SetAmount(text))
    \/ \E text \in Notes : ThenSaved(SetNote(text))
    \/ \E cat \in {Food, Salary} : ThenSaved(SelectCategory(cat))
    \/ ThenSaved(handleAddTransaction)
    \/ ThenSaved(AlertDismiss)

SpecForm == Init /\ [][NextForm]_vars

\* The dates: the app is started on any day of December 2024, in a zone west
\* or east of UTC; the user picks the reference month with the arrows and the
\* month picker and adds the first transaction.
DateStartDates == {[y |-> 2024, m |-> 11, d |-> d, h |-> 22] : d \in 1..31}
DateZones == {0 - 5, 9}

InitDate ==
    /\ transactions = << >>
    /\ categories = SeedCategories
    /\ modalVisible = FALSE
    /\ newTransaction = BlankForm
    /\ newCategoryName = EmptyStr
    /\ isAddingCategory = FALSE
    /\ today \in DateStartDates
    /\ tz \in DateZones
    /\ currentDate = today
    /\ pickerVisible = FALSE
    /\ pickerYear = today.y
    /\ deleteModalVisible = FALSE
    /\ categoryToDelete = Null
    /\ reassignCategory = EmptyStr
    /\ alert = NoAlert
    /\ now = 1
    /\ last = [op |-> "init"]
    /\ theme = "light"
    /\ isLoaded = TRUE
    /\ reads = AllReads("resolved")
    /\ storage = StoreOf(<< >>, SeedCategories, "light")
    /\ writes = NoWrites

\* The ledger stays at its first transaction.
UntilFirstAdd(handler) == transactions = << >> /\ ThenSaved(handler)

NextDate ==
    \/ UntilFirstAdd(OpenModal)
    \/ UntilFirstAdd(SetAmount(<<"5">>))
    \/ UntilFirstAdd(SelectCategory(Food))
    \/ UntilFirstAdd(handleAddTransaction)
    \/ \E direction \in {0 - 1, 1} : UntilFirstAdd(changeMonth(direction))
    \/ UntilFirstAdd(openPicker)
    \/ \E step \in {0 - 1, 1} : UntilFirstAdd(SetPickerYear(step))
    \/ \E monthIndex \in 0..11 : UntilFirstAdd(selectMonthYear(monthIndex))
    \/ UntilFirstAdd(ClosePicker)

SpecDate == InitDate /\ [][NextDate]_vars

\* The ledgers a device has after adds on the real-world day nowDate: one
\* record per entry [type, category, amount, ref], ref the reference month of
\* its add, the first record added last.
BuildLedger(entries, nowDate, zone) ==
    [i \in 1..Len(entries) |->
        NewRecord([type |-> entries[i].type, amount |-> entries[i].amount,
                   category |-> entries[i].category, note |-> EmptyStr],
                  entries[i].ref, nowDate, Len(entries) - i + 1, zone)]

LedgersOf(entries, nowDate, zone) ==
    {BuildLedger(es, nowDate, zone) :
        es \in UNION {[1..n -> entries] : n \in 0..MaxLedger}}

\* The month filter: a device west of UTC late on the last day of March and a
\* device east of UTC early on the first (the UTC date of a record is then in
\* another month than its local date); the ledger holds records of this
\* month, of the same month a year before and of the month before; the user
\* picks the reference month with the arrows and the month picker.
FilterDevices ==
    {[today |-> [y |-> 2024, m |-> 2, d |-> 31, h |-> 22], tz |-> 0 - 5],
     [today |-> [y |-> 2024, m |-> 2, d |-> 1, h |-> 0], tz |-> 9]}

FilterEntries(nowDate) ==
    {[type |-> "Expense", category |-> Food, amount |-> <<"5">>, ref |-> ref] :
        ref \in {nowDate,
                 MakeDate(nowDate.y - 1, nowDate.m, 1, 0),
                 MakeDate(nowDate.y, nowDate.m - 1, 1, 0)}}

InitFilter ==
    /\ \E device \in FilterDevices : today = device.today /\ tz = device.tz
    /\ transactions \in LedgersOf(FilterEntries(today), today, tz)
    /\ categories = SeedCategories
    /\ modalVisible = FALSE
    /\ newTransaction = BlankForm
    /\ newCategoryName = EmptyStr
    /\ isAddingCategory = FALSE
    /\ currentDate = today
    /\ pickerVisible = FALSE
    /\ pickerYear = today.y
    /\ deleteModalVisible = FALSE
    /\ categoryToDelete = Null
    /\ reassignCategory = EmptyStr
    /\ alert = NoAlert
    /\ now = Len(transactions) + 1
    /\ last = [op |-> "init"]
    /\ theme = "light"
    /\ isLoaded = TRUE
    /\ reads = AllReads("resolved")
    /\ storage = StoreOf(transactions, categories, theme)
    /\ writes = NoWrites

NextFilter ==
    \/ \E direction \in {0 - 1, 1} : ThenSaved(changeMonth(direction))
    \/ ThenSaved(openPicker)
    \/ \E step \in {0 - 1, 1} : ThenSaved(SetPickerYear(step))
    \/ \E monthIndex \in 0..11 : ThenSaved(selectMonthYear(monthIndex))
    \/ ThenSaved(ClosePicker)

SpecFilter == InitFilter /\ [][NextFilter]_vars

\* The grouped view: the ledger holds records of this month under Food, Bills
\* and Transport (Expense) and Food (Income, added to the Registry by the
\* user), with amounts typed as "5", "12" and "x", and records of the month
\* before under Food and Shopping; the user walks the months with the arrows.
GroupDevices == {[today |-> [y |-> 2024, m |-> 2, d |-> 15, h |-> 22], tz |-> 0 - 5]}

GroupCategories == AppendCategory(SeedCategories, "Income", Food)

GroupEntries(nowDate) ==
    {[type |-> form[1], category |-> form[2], amount |-> form[3], ref |-> nowDate] :
        form \in {<<"Expense", Food, <<"5">>>>, <<"Expense", Food, <<"1", "2">>>>,
                  <<"Expense", Food, <<"x">>>>, <<"Expense", Bills, <<"5">>>>,
                  <<"Expense", Bills, <<"x">>>>, <<"Expense", Transport, <<"1", "2">>>>,
                  <<"Income", Food, <<"5">>>>, <<"Income", Food, <<"1", "2">>>>}}
    \cup
    {[type |-> "Expense", category |-> cat, amount |-> <<"5">>,
      ref |-> SetMonth(nowDate, nowDate.m - 1)] : cat \in {Food, Shopping}}

InitGroups ==
    /\ \E device \in GroupDevices : today = device.today /\ tz = device.tz
    /\ transactions \in LedgersOf(GroupEntries(today), today, tz)
    /\ categories = GroupCategories
    /\ modalVisible = FALSE
    /\ newTransaction = BlankForm
    /\ newCategoryName = EmptyStr
    /\ isAddingCategory = FALSE
    /\ currentDate = today
    /\ pickerVisible = FALSE
    /\ pickerYear = today.y
    /\ deleteModalVisible = FALSE
    /\ categoryToDelete = Null
    /\ reassignCategory = EmptyStr
    /\ alert = NoAlert
    /\ now = Len(transactions) + 1
    /\ last = [op |-> "init"]
    /\ theme = "light"
    /\ isLoaded = TRUE
    /\ reads = AllReads("resolved")
    /\ storage = StoreOf(transactions, categories, theme)
    /\ writes = NoWrites

NextGroups ==
    \/ \E direction \in {0 - 1, 1} : ThenSaved(changeMonth(direction))

SpecGroups == InitGroups /\ [][NextGroups]_vars

\* The startup load: the app is constructed on a device whose store holds, in
\* each slot, nothing, what an earlier session saved, or an item that does
\* not parse; the three reads resolve or reject in any order and loadData
\* goes on; the user toggles the theme and opens the entry form as soon as
\* the screen lets them; the saves stay in flight until the store completes
\* or fails them, in any order.
StoredLedger ==
    BuildLedger(<<[type |-> "Expense", category |-> Food, amount |-> <<"5">>,
                   ref |-> [y |-> 2024, m |-> 0, d |-> 15, h |-> 22]]>>,
                [y |-> 2024, m |-> 0, d |-> 15, h |-> 22], 0 - 5)

StoredItems ==
    [transactions : {<< >>, <<StringifyTransactions(StoredLedger)>>, <<Corrupt>>},
     categories : {<< >>,
                   <<StringifyCategories(RemoveCategory(SeedCategories, "Expense",
                                                        Bills))>>,
                   <<Corrupt>>},
     theme : {<< >>, <<"dark">>}]

\* The state after construction, before any effect has run.
InitLoad ==
    /\ transactions = << >>
    /\ categories = SeedCategories
    /\ modalVisible = FALSE
    /\ newTransaction = BlankForm
    /\ newCategoryName = EmptyStr
    /\ isAddingCategory = FALSE
    /\ today \in StartDates
    /\ tz \in Zones
    /\ currentDate = today
    /\ pickerVisible = FALSE
    /\ pickerYear = today.y
    /\ deleteModalVisible = FALSE
    /\ categoryToDelete = Null
    /\ reassignCategory = EmptyStr
    /\ alert = NoAlert
    /\ now = 2
    /\ last = [op |-> "init"]
    /\ theme = "light"
    /\ isLoaded = FALSE
    /\ reads = AllReads("pending")
    /\ storage \in StoredItems
    /\ writes = NoWrites

\* The steps of the app (a handler and the save effects that follow it) and
\* the steps of the store.
LoadSteps ==
    \/ ThenQueued(loadData)
    \/ ThenQueued(toggleTheme)
    \/ ThenQueued(OpenModal)
    \/ ThenQueued(CloseModal)
    \/ ThenQueued(AlertDismiss)

ReadSettles ==
    \/ \E slot \in Slots : StorageReadResolves(slot)
    \/ \E slot \in Slots : StorageReadRejects(slot)

WriteSettles ==
    \/ \E slot \in Slots : \E blob \in writes[slot] : StorageWriteResolves(slot, blob)
    \/ \E slot \in Slots : \E blob \in writes[slot] : StorageWriteRejects(slot, blob)

NextLoad == LoadSteps \/ ReadSettles \/ WriteSettles

SpecLoad == InitLoad /\ [][NextLoad]_vars

\* The same, with every read settled in the end and the continuation of
\* loadData run once Promise.all is settled.
SpecLoadLive ==
    /\ SpecLoad
    /\ \A slot \in Slots :
          WF_vars(StorageReadResolves(slot) \/ StorageReadRejects(slot))
    /\ WF_vars(ThenQueued(loadData))

\* The saves: after a startup on an empty store the user toggles the theme,
\* adds transactions under Food and deletes the category Food, with or
\* without its transactions; the saves stay in flight until the store completes or fails them, in any
\* order.
SaveSteps ==
    \/ ThenQueued(toggleTheme)
    \/ ThenQueued(OpenModal)
    \/ ThenQueued(SetAmount(<<"5">>))
    \/ ThenQueued(SelectCategory(Food))
    \/ ThenQueued(handleAddTransaction)
    \/ ThenQueued(handleDeleteCategoryInitiation(Food))
    \/ ThenQueued(AlertDismiss)
    \/ ThenQueued(AlertDeleteCategory)
    \/ ThenQueued(DialogDeleteAll)
    \/ ThenQueued(DialogCancel)

NextSave == SaveSteps \/ WriteSettles

SpecSave == Init /\ [][NextSave]_vars

\* The deletion requests: the user adds transactions under Food and Bills,
\* asks for the deletion of either and ends each request every way the
\* prompts allow; the press of Reassign reaches its handler with or without a
\* target.
NextRequest ==
    \/ ThenSaved(OpenModal)
    \/ ThenSaved(CloseModal)
    \/ ThenSaved(SetAmount(<<"5">>))
    \/ \E cat \in {Food, Bills} : ThenSaved(SelectCategory(cat))
    \/ ThenSaved(handleAddTransaction)
    \/ \E cat \in {Food, Bills} : ThenSaved(handleDeleteCategoryInitiation(cat))
    \/ ThenSaved(AlertDismiss)
    \/ ThenSaved(AlertDeleteCategory)
    \/ \E cat \in {Food, Bills, Transport} : ThenSaved(SetReassignCategory(cat))
    \/ ThenSaved(DialogDeleteAll)
    \/ ThenSaved(ReassignOnPress)
    \/ ThenSaved(DialogCancel)
    \/ ThenSaved(DialogRequestClose)

SpecRequest == Init /\ [][NextRequest]_vars

\* The future months: the user walks the months with the arrows and the month
\* picker (January, February, March and December of the year shown), opens
\* and cancels the entry form and adds transactions under Food, while the
\* real-world clock moves on into the next month. The "+" button is
\* taken as rendered with the clock of the press: a render that is older
\* than the last move of the clock shows the button for fewer months.
FutureMonths == {0, 1, 2, 11}

NextFuture ==
    \/ ThenSaved(OpenModal)
    \/ ThenSaved(CloseModal)
    \/ ThenSaved(SetAmount(<<"5">>))
    \/ ThenSaved(SelectCategory(Food))
    \/ ThenSaved(handleAddTransaction)
    \/ ThenSaved(AlertDismiss)
    \/ \E direction \in {0 - 1, 1} : ThenSaved(changeMonth(direction))
    \/ ThenSaved(openPicker)
    \/ \E monthIndex \in FutureMonths : ThenSaved(selectMonthYear(monthIndex))
    \/ ThenSaved(ClosePicker)
    \/ ThenSaved(MonthPasses)

SpecFuture == Init /\ [][NextFuture]_vars

\* The same with a store that completes every save, in any order.
NextOrder ==
    \/ SaveSteps
    \/ \E slot \in Slots : \E blob \in writes[slot] : StorageWriteResolves(slot, blob)

SpecOrder == Init /\ [][NextOrder]_vars

\* ------------------------------------------------------------------ claims

\* The number of transactions of txs with the given type and category.
Dependents(txs, type, categoryName) ==
    Cardinality({i \in 1..Len(txs) :
                    txs[i].type = type /\ txs[i].category = categoryName})

\* new is old without its one entry name, the rest in the same order.
RemovedFrom(old, new, name) ==
    /\ ~Includes(new, name)
    /\ \E k \in 1..Len(old) :
          /\ old[k] = name
          /\ new = SubSeq(old, 1, k - 1) \o SubSeq(old, k + 1, Len(old))

OtherType(type) == IF type = "Income" THEN "Expense" ELSE "Income"

\* A category deletion commits in this step.
DeletionCommits == last'.op = "deleteCategory"
ReassignCommits == DeletionCommits /\ last'.action = "reassign"
DeleteAllCommits ==
    DeletionCommits /\ last'.action = "delete" /\ last'.prompt = "dialog"

\* C2: whenever the Reassign choice of a deletion request for category C of
\* type T commits, the target is in the Registry list of T and is not C.
C2_ReassignTargetListed ==
    [][ReassignCommits =>
          /\ Includes(categories[last'.type], last'.target)
          /\ last'.target # last'.name]_vars

\* C6: Reassign of C of type T with N dependents and target G keeps the length
\* and the order of the ledger, rewrites the category of exactly the N
\* dependents to G, changes no other transaction, removes C from the list of T;
\* afterwards no transaction of type T carries C and G has N more of type T.
C6_ReassignRewritesDependents ==
    [][ReassignCommits =>
          LET T == last'.type
              C == last'.name
              G == last'.target
              N == Dependents(transactions, T, C)
          IN  /\ Len(transactions') = Len(transactions)
              /\ \A i \in 1..Len(transactions) :
                    transactions'[i] =
                      IF transactions[i].type = T /\ transactions[i].category = C
                      THEN [transactions[i] EXCEPT !.category = G]
                      ELSE transactions[i]
              /\ RemovedFrom(categories[T], categories'[T], C)
              /\ Dependents(transactions', T, C) = 0
              /\ Dependents(transactions', T, G) = Dependents(transactions, T, G) + N
       ]_vars

\* C7: a deletion of C of type T with no dependent transaction is asked by the
\* single confirm prompt and, confirmed, removes C from the list of T and
\* leaves the ledger and the other list as they were.
C7_NoDependentsSimpleConfirm ==
    [][(DeletionCommits /\ Dependents(transactions, last'.type, last'.name) = 0) =>
          /\ alert # NoAlert
          /\ alert[1].kind = "confirmDeleteCategory"
          /\ alert[1].name = last'.name /\ alert[1].type = last'.type
          /\ ~deleteModalVisible
          /\ transactions' = transactions
          /\ RemovedFrom(categories[last'.type], categories'[last'.type], last'.name)
          /\ categories'[OtherType(last'.type)] = categories[OtherType(last'.type)]
       ]_vars

\* C7 happens: a category without dependents was deleted through the prompt
\* while the ledger held transactions.
C7_Witness ==
    /\ last.op = "deleteCategory"
    /\ last.prompt = "alert"
    /\ Len(transactions) > 0
    /\ ~Includes(categories[last.type], last.name)

\* C4: no name occurs twice in the list of a type.
C4_NamesUniquePerType ==
    \A type \in Types :
        \A i, j \in 1..Len(categories[type]) :
            i # j => categories[type][i] # categories[type][j]

\* C4 happens: Food is listed under both types, Bills has been deleted, and an
\* add of a name already listed has just been refused.
C4_Witness ==
    /\ last.op = "addCategoryRejected"
    /\ Truthy(Trim(newCategoryName))
    /\ Includes(categories.Income, Food)
    /\ Includes(categories.Expense, Food)
    /\ ~Includes(categories.Expense, Bills)

\* sub is a subsequence of seq: the same records in the same relative order.
IsSubSeq(sub, seq) ==
    \E f \in [1..Len(sub) -> 1..Len(seq)] :
        /\ \A k \in 1..Len(sub) : sub[k] = seq[f[k]]
        /\ \A k, l \in 1..Len(sub) : k < l => f[k] < f[l]

\* C5: DeleteAll of C of type T with N dependents removes exactly the N
\* transactions of (T, C), whatever their month, and C from the list of T;
\* the other transactions stay, unchanged and in order, and so does the other list.
C5_DeleteAllRemovesDependents ==
    [][DeleteAllCommits =>
          LET T == last'.type
              C == last'.name
              N == Dependents(transactions, T, C)
          IN  /\ N > 0
              /\ Len(transactions') = Len(transactions) - N
              /\ Dependents(transactions', T, C) = 0
              /\ IsSubSeq(transactions', transactions)
              /\ RemovedFrom(categories[T], categories'[T], C)
              /\ categories'[OtherType(T)] = categories[OtherType(T)]
       ]_vars

\* C5 happens: DeleteAll removed a dependent of a month that was not on
\* screen, and a transaction of the other type under the same name is kept.
C5_Witness ==
    /\ last.op = "deleteCategory"
    /\ last.action = "delete"
    /\ last.prompt = "dialog"
    /\ \E i \in 1..Len(last.before) :
          /\ last.before[i].type = last.type
          /\ last.before[i].category = last.name
          /\ ~isSameMonth(last.before[i].dateISO, currentDate, tz)
    /\ \E i \in 1..Len(transactions) :
          /\ transactions[i].type = OtherType(last.type)
          /\ transactions[i].category = last.name

\* C9: an add that passes the validation puts the new record first and keeps
\* the previous ledger behind it; the Registry is unchanged.
C9_AddPrepends ==
    [][last'.op = "add" =>
          /\ Len(transactions') = Len(transactions) + 1
          /\ Tail(transactions') = transactions
          /\ Head(transactions').type = newTransaction.type
          /\ Head(transactions').category = newTransaction.category
          /\ Head(transactions').note = newTransaction.note
          /\ isSameMonth(Head(transactions').dateISO, currentDate, tz)
          /\ categories' = categories
       ]_vars

\* C9 happens: the record added last is first although its date is in an
\* earlier month than the date of the record behind it.
C9_Witness ==
    /\ last.op = "add"
    /\ Len(transactions) = 2
    /\ MonthIndex(ParseISO(transactions[1].dateISO, tz))
         < MonthIndex(ParseISO(transactions[2].dateISO, tz))

\* C1: no two transactions of the ledger have the same id.
C1_IdsUnique ==
    \A i, j \in 1..Len(transactions) :
        i # j => transactions[i].id # transactions[j].id

\* C8: after remove(id) no transaction has that id, the ledger is one shorter
\* if the id was there and as long as before if not, the transactions that
\* stay and the Registry are unchanged.
C8_RemoveTakesOne ==
    [][last'.op = "remove" =>
          LET id == last'.id
              Existed == \E i \in 1..Len(transactions) : transactions[i].id = id
          IN  /\ \A i \in 1..Len(transactions') : transactions'[i].id # id
              /\ Len(transactions') =
                    Len(transactions) - (IF Existed THEN 1 ELSE 0)
              /\ IsSubSeq(transactions', transactions)
              /\ categories' = categories
       ]_vars

\* The amount text is empty or no number, or no category is selected.
InvalidEntry(form) ==
    \/ form.amount = EmptyStr
    \/ ParseFloat(form.amount).nan
    \/ form.category = EmptyStr

\* C3: Save with an empty or unparseable amount, or without a category,
\* changes neither the ledger nor the Registry nor the form, which stays open.
C3_InvalidAddChangesNothing ==
    [][(last'.op \in {"add", "addRejected"} /\ InvalidEntry(newTransaction)) =>
          /\ transactions' = transactions
          /\ categories' = categories
          /\ newTransaction' = newTransaction
          /\ modalVisible'
       ]_vars

Min(a, b) == IF a < b THEN a ELSE b

\* C10: an add under reference month M on real-world day d assigns the date
\* with the month and the year of M and the day min(d, days of M), never a
\* date of the month after M.
C10_DateClampedToReferenceMonth ==
    [][last'.op = "add" =>
          LET M == currentDate
              rec == Head(transactions')
              assigned == ParseISO(rec.dateISO, tz)
              day == Min(today.d, DaysInMonth(M.y, M.m))
          IN  /\ assigned.y = M.y
              /\ assigned.m = M.m
              /\ assigned.d = day
              /\ MonthIndex(assigned) # MonthIndex(M) + 1
              /\ rec.displayDate = <<M.m + 1, day, M.y>>
       ]_vars

\* C10 happens: on the 31st a transaction was added under February of a
\* non-leap year and is dated the 28th.
C10_Witness ==
    /\ last.op = "add"
    /\ today.d = 31
    /\ Len(transactions) = 1
    /\ ParseISO(transactions[1].dateISO, tz).y = 2023
    /\ ParseISO(transactions[1].dateISO, tz).m = 1
    /\ ParseISO(transactions[1].dateISO, tz).d = 28

\* The record's stored calendar date is in the month and the year of cur.
StoredInMonth(t, cur) == t.displayDate[1] = cur.m + 1 /\ t.displayDate[3] = cur.y

\* C11: the filtered set is a subsequence of the ledger and holds exactly the
\* transactions whose stored date is in the month and the year of the
\* reference month: none of the same month of another year, none of another
\* month of the same year.
C11_FilterIsTheMonth ==
    LET filtered == getFilteredTransactions(transactions, currentDate, tz)
        Matching == {i \in 1..Len(transactions) :
                        StoredInMonth(transactions[i], currentDate)}
    IN  /\ IsSubSeq(filtered, transactions)
        /\ Len(filtered) = Cardinality(Matching)
        /\ \A k \in 1..Len(filtered) : StoredInMonth(filtered[k], currentDate)
        /\ \A i \in Matching :
              \E k \in 1..Len(filtered) : filtered[k] = transactions[i]

\* C11 happens: with the reference month picked in the month picker, the
\* filter keeps a record whose UTC date is in another month than the
\* reference month and leaves out a record of the same month of another year
\* and a record of another month of the same year.
C11_Witness ==
    LET filtered == getFilteredTransactions(transactions, currentDate, tz)
    IN  /\ currentDate # today
        /\ \E k \in 1..Len(filtered) : filtered[k].dateISO[2] # currentDate.m + 1
        /\ \E i \in 1..Len(transactions) :
              /\ transactions[i].displayDate[1] = currentDate.m + 1
              /\ transactions[i].displayDate[3] # currentDate.y
        /\ \E i \in 1..Len(transactions) :
              /\ transactions[i].displayDate[1] # currentDate.m + 1
              /\ transactions[i].displayDate[3] = currentDate.y
        /\ Len(filtered) < Len(transactions)

\* The month view of the state: the filtered set and the lists the grouping
\* may return on it.
Filtered == getFilteredTransactions(transactions, currentDate, tz)
GroupedViews == getGroupedTransactions(Filtered)

RECURSIVE SumOfTotals(_)
SumOfTotals(groups) ==
    IF groups = << >> THEN 0
    ELSE groups[1].total.v + SumOfTotals(Tail(groups))

\* C12: with amounts that are non-negative integers, the totals of the groups
\* of the filtered set add up to the income total plus the expense total of
\* the same filtered set.
C12_GroupTotalsAddUp ==
    (\A k \in 1..Len(Filtered) :
        ~Filtered[k].amount.nan /\ Filtered[k].amount.v >= 0)
    => \A view \in GroupedViews :
          /\ \A i \in 1..Len(view) : ~view[i].total.nan
          /\ ~getTotals(Filtered).income.nan
          /\ ~getTotals(Filtered).expense.nan
          /\ SumOfTotals(view) =
                getTotals(Filtered).income.v + getTotals(Filtered).expense.v

\* C12 happens: the month has an Income group and Expense groups, one of them
\* with two transactions of different amounts, all amounts numbers.
C12_Witness ==
    /\ \A k \in 1..Len(Filtered) : ~Filtered[k].amount.nan
    /\ getTotals(Filtered).income.v > 0
    /\ getTotals(Filtered).expense.v > 0
    /\ \E view \in GroupedViews :
          \E i \in 1..Len(view) :
              /\ Len(view[i].transactions) = 2
              /\ view[i].transactions[1].amount # view[i].transactions[2].amount

\* a < b on totals; no comparison with NaN is true.
LessThan(a, b) == ~a.nan /\ ~b.nan /\ a.v < b.v

\* C13: in the grouped view every Income group is before every Expense group
\* and, within a type, no group is before a group of a greater total.
C13_GroupsOrdered ==
    \A view \in GroupedViews :
        \A i, j \in 1..Len(view) :
            i < j =>
              /\ ~(view[i].type = "Expense" /\ view[j].type = "Income")
              /\ (view[i].type = view[j].type
                    => ~LessThan(view[i].total, view[j].total))

\* The (type, category) pairs of a list of transactions.
PairsOf(txs) == {<<txs[k].type, txs[k].category>> : k \in 1..Len(txs)}

\* The transactions of txs of one type and category, in the order of txs.
OfPair(txs, type, categoryName) ==
    LET Keep(t) == t.type = type /\ t.category = categoryName
    IN  SelectSeq(txs, Keep)

IssuesSave == \E slot \in Slots : ~(writes'[slot] \subseteq writes[slot])
UserActs == last'.op \notin {"init", "env", "load", "saved", "saveFailed"}

\* C15: no save is issued to a slot and no user event is handled while a read
\* of the startup load is still pending.
C15_NoSaveBeforeLoad ==
    [][(IssuesSave \/ UserActs) =>
          \A slot \in Slots : reads[slot] # "pending"]_vars

\* C16: the app leaves the loading state for good, whether the load succeeds,
\* a read rejects or a stored item does not parse.
C16_LoadingEnds == <>[]isLoaded

\* C16 happens: the loading state has been left after a read was rejected
\* while the other reads were answered with stored items.
C16_Witness ==
    /\ isLoaded
    /\ last.op = "load"
    /\ last.failed
    /\ reads.transactions = "rejected"
    /\ reads.categories = "resolved"
    /\ storage.categories # << >>

\* C17: when the startup load fails the app goes on with the default state:
\* empty ledger, seed Registry, light theme.
C17_FailedLoadGivesDefaults ==
    [][(last'.op = "load" /\ last'.failed) =>
          /\ transactions' = << >>
          /\ categories' = SeedCategories
          /\ theme' = "light"]_vars

\* C18: a save that fails changes neither the ledger nor the Registry nor the
\* theme, and the month view is computed on the same state as before.
C18_FailedSaveKeepsMemory ==
    [][last'.op = "saveFailed" =>
          /\ transactions' = transactions
          /\ categories' = categories
          /\ theme' = theme
          /\ getFilteredTransactions(transactions', currentDate', tz') = Filtered
          /\ getGroupedTransactions(
                 getFilteredTransactions(transactions', currentDate', tz'))
               = GroupedViews
          /\ storage' = storage]_vars

\* C18 happens: the save of a ledger with a new transaction has failed, the
\* slot still holds the ledger without it and the month view shows it.
C18_Witness ==
    /\ last = [op |-> "saveFailed", slot |-> "transactions"]
    /\ writes.transactions = {}
    /\ Len(transactions) > 0
    /\ Filtered = transactions
    /\ storage.transactions # <<StringifyTransactions(transactions)>>

\* C19: a category leaves the list of its type only in the step of its
\* deletion, and after that step no transaction of that type carries it; the
\* step that deletes or reassigns its dependents is the step that removes it
\* from the list.
C19_DeletionIsAtomic ==
    [][/\ \A type \in Types :
            \A i \in 1..Len(categories[type]) :
                ~Includes(categories'[type], categories[type][i]) =>
                    /\ DeletionCommits
                    /\ last'.type = type
                    /\ last'.name = categories[type][i]
                    /\ Dependents(transactions', type, categories[type][i]) = 0
       /\ DeletionCommits => ~Includes(categories'[last'.type], last'.name)
      ]_vars

\* The step ends a deletion request without committing it: Cancel of the
\* conflict dialog, Cancel of the confirm prompt, or a press of Reassign
\* while no target is set. The request is for category name of type type.
RequestOfDialog ==
    IF categoryToDelete # Null THEN categoryToDelete
    ELSE <<[name |-> EmptyStr, type |-> "Expense"]>>

CancelOfDialog == last'.op = "dialogCancel" /\ categoryToDelete # Null
CancelOfPrompt ==
    /\ last'.op = "dismiss"
    /\ last'.kind = "confirmDeleteCategory"
ReassignWithoutTarget ==
    /\ last'.op \in {"deleteCategory", "deleteCategoryRejected"}
    /\ alert = NoAlert
    /\ deleteModalVisible
    /\ reassignCategory = EmptyStr
    /\ last'.op = "deleteCategory" => last'.action = "reassign"

\* C20: a deletion request that ends by Cancel of the conflict dialog, by
\* Cancel of the confirm prompt or by a press of Reassign with no target
\* leaves the ledger and both Registry lists as they were, and the category
\* of the request stays listed under its type.
C20_NonCommittingOutcomesChangeNothing ==
    [][/\ (CancelOfDialog \/ ReassignWithoutTarget) =>
             /\ transactions' = transactions
             /\ categories' = categories
             /\ Includes(categories'[RequestOfDialog[1].type],
                         RequestOfDialog[1].name)
       /\ CancelOfPrompt =>
             /\ transactions' = transactions
             /\ categories' = categories
             /\ Includes(categories'[alert[1].type], alert[1].name)
      ]_vars

\* C20 happens: Reassign was pressed with no target on a request for a
\* category that has transactions; the dialog is still open under the notice.
C20_Witness ==
    /\ last.op = "deleteCategoryRejected"
    /\ alert # NoAlert
    /\ deleteModalVisible
    /\ reassignCategory = EmptyStr
    /\ categoryToDelete # Null
    /\ Dependents(transactions, categoryToDelete[1].type, categoryToDelete[1].name) > 0
    /\ Includes(categories[categoryToDelete[1].type], categoryToDelete[1].name)

\* The step is a press of "Add" beside the new-category input.
AddCategoryPressed == last'.op \in {"addCategory", "addCategoryRejected"}

\* C21: a press of "Add" with the text name typed under type T: when name
\* without the spaces around it is empty or listed under T, the Registry, the
\* ledger and the category selected in the form stay as they were; if not,
\* the list of T is the old list with that trimmed name behind it and the
\* list of the other type is the old one.
C21_AddCategoryTrimsAndAppends ==
    [][AddCategoryPressed =>
          LET name == Trim(newCategoryName)
              type == newTransaction.type
          IN  IF name = EmptyStr \/ Includes(categories[type], name)
              THEN /\ categories' = categories
                   /\ transactions' = transactions
                   /\ newTransaction'.category = newTransaction.category
              ELSE /\ categories'[type] = categories[type] \o <<name>>
                   /\ categories'[OtherType(type)] = categories[OtherType(type)]
                   /\ transactions' = transactions]_vars

\* C21 happens: " Food " was typed under Income and Food is now the last
\* name of the Income list, behind the seed names, with a ledger in place.
C21_Witness ==
    /\ last = [op |-> "addCategory", type |-> "Income", name |-> Food]
    /\ Len(categories.Income) > 1
    /\ categories.Income[Len(categories.Income)] = Food
    /\ categories.Income[1] = Salary
    /\ newTransaction.category = Food
    /\ Len(transactions) > 0

\* C22: in the step that commits the deletion of C (from the confirm prompt,
\* by DeleteAll or by Reassign) the category selected in the entry form
\* becomes empty when it was C and stays when it was another one; the rest of
\* the form stays; the form does not show C selected afterwards.
C22_DeletionClearsSelection ==
    [][DeletionCommits =>
          /\ newTransaction' =
                [newTransaction EXCEPT
                    !.category = IF @ = last'.name THEN EmptyStr ELSE @]
          /\ newTransaction'.category # last'.name]_vars

\* C22 happens: Food was selected in the form and its deletion has been
\* committed by Reassign; the form has an amount and no category.
C22_Witness ==
    /\ last.op = "deleteCategory"
    /\ last.action = "reassign"
    /\ last.name = Food
    /\ modalVisible
    /\ newTransaction.amount # EmptyStr
    /\ newTransaction.category = EmptyStr
    /\ ~Includes(categories.Expense, Food)

\* C23: in every step that adds a transaction the reference month is the
\* month of the real-world date or an earlier one, whatever the user did with
\* the entry form, the arrows and the month picker and however the clock
\* moved on.
C23_NoAddInFutureMonth ==
    [][last'.op = "add" => MonthIndex(currentDate) <= MonthIndex(today)]_vars

\* C23 happens: the clock has moved on into the month after the start's and
\* a transaction has been added with that month as the reference month, dated
\* in it.
C23_Witness ==
    /\ last.op = "add"
    /\ today \notin StartDates
    /\ MonthIndex(currentDate) = MonthIndex(today)
    /\ MonthIndex(ParseISO(transactions[1].dateISO, tz)) = MonthIndex(today)

\* The fields of a transaction other than its category.
FixedFields(t) ==
    [id |-> t.id, type |-> t.type, amount |-> t.amount, note |-> t.note,
     dateISO |-> t.dateISO, displayDate |-> t.displayDate]

\* Record j of the ledger after the step is the transaction added by the step.
AddedAt(j) == last'.op = "add" /\ j = 1

\* C24: a transaction that is in the ledger before and after a step has the
\* same id, type, amount, note, dateISO and displayDate after it; when its
\* category differs, the step commits a Reassign deletion of its old
\* category under its type and the new category is the target.
C24_OnlyCategoryChanges ==
    [][\A i \in 1..Len(transactions) :
          \A j \in 1..Len(transactions') :
              (transactions'[j].id = transactions[i].id /\ ~AddedAt(j)) =>
                  /\ FixedFields(transactions'[j]) = FixedFields(transactions[i])
                  /\ transactions'[j].category # transactions[i].category =>
                        /\ ReassignCommits
                        /\ last'.type = transactions[i].type
                        /\ last'.name = transactions[i].category
                        /\ last'.target = transactions'[j].category]_vars

\* C24 happens: the ledger held a transaction under Food and one under
\* Bills; the deletion of Food by Reassign to Bills has just moved the first
\* and left the second as it was.
C24_Witness ==
    /\ last.op = "deleteCategory"
    /\ last.action = "reassign"
    /\ last.name = Food
    /\ last.target = Bills
    /\ Len(last.before) = 2
    /\ Len(transactions) = 2
    /\ \E i, j \in 1..2 :
          /\ last.before[i].category = Food
          /\ last.before[j].category = Bills
          /\ transactions[i] = [last.before[i] EXCEPT !.category = Bills]
          /\ transactions[j] = last.before[j]

\* What the next startup sets from the store as it is now, every read
\* resolved: loadData on the state after construction.
NextStartup == LoadedState(storage, << >>, SeedCategories, "light")

\* C25: with every save done, what the next startup reads back from the
\* transactions slot and the categories slot is the ledger and the Registry
\* of this session: the same records, fields and order.
C25_RoundTrip ==
    /\ NextStartup.transactions = transactions
    /\ NextStartup.categories = categories

\* C26: every transaction of the ledger carries a category that is listed in
\* the Registry under the type of the transaction.
C26_CategoriesOfLedgerListed ==
    \A i \in 1..Len(transactions) :
        Includes(categories[transactions[i].type], transactions[i].category)

\* The step is a press of a month arrow: the reference date changes while the
\* month picker is closed.
ArrowPressed == currentDate' # currentDate /\ ~pickerVisible

\* C27: a press of a month arrow leads to the month next to the reference
\* month: the following month for the right arrow, the preceding month for
\* the left one, with the year carried between December and January.
C27_ArrowMovesOneMonth ==
    [][ArrowPressed =>
          \A direction \in {0 - 1, 1} :
              currentDate' = SetMonth(currentDate, currentDate.m + direction) =>
                  MonthIndex(currentDate') = MonthIndex(currentDate) + direction]_vars

\* What a save of the state after construction writes: the empty ledger, the
\* seed Registry, the light theme.
DefaultItems == Serialized(<< >>, SeedCategories, "light")

\* C28: the step in which a startup load ends in failure (a read rejected, or
\* a stored item that does not parse) issues no save of a default value to a
\* slot that holds another value; the user has changed nothing by then.
C28_FailedLoadKeepsStoredData ==
    [][(last'.op = "load" /\ last'.failed) =>
          \A slot \in Slots :
              (storage[slot] # << >> /\ storage[slot] # <<DefaultItems[slot]>>) =>
                  DefaultItems[slot] \notin writes'[slot]]_vars

\* C29: with a store that completes every save, whenever no save of a slot
\* is in flight the slot holds what a save of the state in memory writes.
C29_SettledSavesAreCurrent ==
    \A slot \in Slots :
        writes[slot] = {} =>
            storage[slot] = <<Serialized(transactions, categories, theme)[slot]>>

\* C30: while the conflict dialog is closed there is no pending category and
\* no reassignment target; while it is open the pending category is listed
\* in the Registry under the pending type.
C30_DeletionRequestConsistent ==
    /\ ~deleteModalVisible => categoryToDelete = Null /\ reassignCategory = EmptyStr
    /\ deleteModalVisible =>
          /\ categoryToDelete # Null
          /\ Includes(categories[RequestOfDialog[1].type], RequestOfDialog[1].name)

====
